---- MODULE Spec2Model ----
(***************************************************************************)
(* Model of examples/text_classification/tutorial_imdb_fasttext.py:       *)
(*   - augment_with_ngrams (lines 108-119), executed step by step as the  *)
(*     interpreter evaluates line 119, for one call (Spec) and for two    *)
(*     interleaved calls sharing the module constants (SpecPar);          *)
(*   - the control flow of train_test_and_save_model (lines 135-180)      *)
(*     over successive runs of the script (SpecTrain).                    *)
(***************************************************************************)
EXTENDS Integers, Sequences, FiniteSets, TLC

VARIABLES frames, itemsize, tpc, ckpt_exists, epoch, batch, nbatches, trace, run, last

vars == <<frames, itemsize, tpc, ckpt_exists, epoch, batch, nbatches, trace, run, last>>
augVars == <<frames, itemsize>>
trainVars == <<tpc, ckpt_exists, epoch, batch, nbatches, trace, run, last>>

(***************************************************************************)
(* Bounds of the model.                                                    *)
(***************************************************************************)
\* longest token sequence passed to augment_with_ngrams
MaxLen == 3
\* largest n-gram order passed as n
MaxN == 3
\* most mini-batches tl.iterate.minibatches yields in one epoch
MaxBatches == 2
\* number of times the script is run one after another
MaxRuns == 3

(***************************************************************************)
(* Program constants.                                                      *)
(***************************************************************************)
N_EPOCH == 5

\* token values fed to a single call: a negative one, zero, a one-byte
\* value and a two-byte value (257 = 0x0101)
Tokens == {-1, 0, 1, 257}
\* token values of the interleaved calls (valid IDs only)
ParTokens == {1, 257}
VocabSizes == {0, 10, 300}
BucketCounts == {-3, 0, 1, 100}
Orders == 0..MaxN
\* sizeof(unsigned long) of the interpreter's build: 4 (LLP64, 32-bit) or 8 (LP64)
ItemSizes == {4, 8}

SeqsUpTo(S, m) == UNION {[1..l -> S] : l \in 0..m}

Max(a, b) == IF a >= b THEN a ELSE b

(***************************************************************************)
(* Python primitives used by augment_with_ngrams.                          *)
(***************************************************************************)
\* unigrams[j:] for 0 <= j
Slice(s, j) == SubSeq(s, j + 1, Len(s))

\* a % b of Python integers (sign of the divisor), b # 0
PyMod(a, b) == IF b > 0 THEN a % b ELSE -((-a) % (-b))

\* native (little-endian) bytes of one unsigned element of width w
RECURSIVE ItemBytes(_, _)
ItemBytes(x, w) == IF w = 0 THEN <<>> ELSE <<x % 256>> \o ItemBytes(x \div 256, w - 1)

\* variant: typecode 'l' (signed) accepts negative elements
ArrayFitsSigned(ngram) == TRUE

\* array.array('L', ngram) accepts the tuple: every element is representable
\* as an unsigned long.  The upper limit 256^w is beyond the integers of the
\* model, so only the lower limit can be missed.
ArrayFits(ngram) == \A j \in 1..Len(ngram) : ngram[j] >= 0

\* variant: each element takes only the bytes it needs (no fixed width)
RECURSIVE MinimalBytes(_)
MinimalBytes(x) == IF x < 256 THEN <<x>> ELSE <<x % 256>> \o MinimalBytes(x \div 256)

RECURSIVE tobytesMinimal(_, _)
tobytesMinimal(ngram, w) ==
    IF ngram = <<>> THEN <<>>
    ELSE MinimalBytes(Head(ngram)) \o tobytesMinimal(Tail(ngram), w)

\* array.array('L', ngram).tobytes(): the elements' bytes one after another
RECURSIVE tobytes(_, _)
tobytes(ngram, w) ==
    IF ngram = <<>> THEN <<>>
    ELSE ItemBytes(Head(ngram), w) \o tobytes(Tail(ngram), w)

\* int(hashlib.sha256(bytes_).hexdigest(), 16): a fixed function of the byte
\* string onto a bounded range of naturals.  The digest is abstracted by a
\* multiplicative fold over the bytes (the real range, 2^256, is beyond the
\* integers of the model).
RECURSIVE sha256from(_, _)
sha256from(h, bytes) ==
    IF bytes = <<>> THEN h
    ELSE sha256from((h * 131 + Head(bytes) + 1) % 1000003, Tail(bytes))

sha256(bytes) == sha256from(5381, bytes)

\* variant: the bucket index is returned without the vocabulary offset
hash_ngramNoOffset(ngram, unigram_vocab_size, n_buckets, w) ==
    PyMod(sha256(tobytes(ngram, w)), n_buckets)

\* hash_ngram, for an ngram the array accepts and n_buckets # 0
hash_ngram(ngram, unigram_vocab_size, n_buckets, w) ==
    unigram_vocab_size + PyMod(sha256(tobytes(ngram, w)), n_buckets)

\* variant: zip_longest with fill value 0 (a window starts at every position)
get_ngramsPadded(unigrams, n) ==
    [k \in 1..Len(unigrams) |->
        [j \in 1..n |-> IF k + j - 1 <= Len(unigrams) THEN unigrams[k + j - 1] ELSE 0]]

\* variant: the windows are produced from the right end of the sequence
get_ngramsReversed(unigrams, n) ==
    LET count == Max(0, Len(unigrams) - n + 1)
    IN  [k \in 1..count |-> SubSeq(unigrams, count + 1 - k, count - k + n)]

\* get_ngrams(n): list(zip(*[unigrams[i:] for i in range(n)])), n >= 1
get_ngrams(unigrams, n) ==
    LET slices == [j \in 1..n |-> Slice(unigrams, j - 1)]
        shortest == Len(slices[n])
    IN  [k \in 1..shortest |-> [j \in 1..n |-> slices[j][k]]]

\* variant: range(2, n + 2)
RangeHasInclusive(i, n) == i <= n + 1

\* range(2, n + 1), entered at 2, still has the value i to deliver
RangeHas(i, n) == i <= n

\* variant: unigrams.extend(...) and return unigrams
ListExtend(a, b) == [self |-> a \o b, ret |-> a \o b]

\* variant: the operands of + are swapped
ListPrepend(a, b) == [self |-> a, ret |-> b \o a]

\* list.__add__: a new list is returned, the left operand is left as it was
ListAdd(a, b) == [self |-> a, ret |-> a \o b]

\* variant: the window is hashed together with its start position
ComprehensionItemAt(f, w) ==
    hash_ngram(f.ngrams[f.k] \o <<f.k>>, f.unigram_vocab_size, f.n_buckets, w)

\* the element the comprehension of line 119 produces for the current ngram
ComprehensionItem(f, w) ==
    hash_ngram(f.ngrams[f.k], f.unigram_vocab_size, f.n_buckets, w)

(***************************************************************************)
(* One call of augment_with_ngrams: its frame.                             *)
(*   unigrams  the list object the parameter refers to (the caller's list) *)
(*   x0        its contents when the call was made (history)               *)
(*   i, ngrams, k   the two loops of the comprehension                     *)
(*   acc       the list the comprehension is building                      *)
(*   hashed    the (ngram, bytes, id) triples hashed so far (history)      *)
(***************************************************************************)
NewFrame(x, V, B, n) ==
    [unigrams |-> x, x0 |-> x, unigram_vocab_size |-> V, n_buckets |-> B, n |-> n,
     pc |-> "call", i |-> 0, ngrams |-> <<>>, k |-> 0, acc |-> <<>>,
     hashed |-> <<>>, result |-> <<>>, err |-> "none"]

IdleTrain ==
    /\ tpc = "off"
    /\ ckpt_exists = FALSE
    /\ epoch = 0
    /\ batch = 0
    /\ nbatches = 0
    /\ trace = <<>>
    /\ run = 0
    /\ last = "none"

Init ==
    /\ itemsize \in ItemSizes
    /\ \E x \in SeqsUpTo(Tokens, MaxLen), V \in VocabSizes, B \in BucketCounts, n \in Orders :
          frames = [c \in {1} |-> NewFrame(x, V, B, n)]
    /\ IdleTrain

\* two calls as made by line 129: each on its own list, same module constants
InitPar ==
    /\ itemsize = 8
    /\ \E x \in SeqsUpTo(ParTokens, MaxLen), y \in SeqsUpTo(ParTokens, MaxLen),
          n \in 2..MaxN :
          frames = [c \in {1, 2} |-> NewFrame(IF c = 1 THEN x ELSE y, 10, 100, n)]
    /\ IdleTrain

\* the call starts evaluating line 119: the outer loop is set up
Enter(c) ==
    /\ frames[c].pc = "call"
    /\ frames' = [frames EXCEPT ![c].pc = "for_i", ![c].i = 2]
    /\ UNCHANGED <<itemsize, trainVars>>

\* for i in range(2, n + 1): next i, get_ngrams(i) is evaluated; or the loop ends
ForI(c) ==
    /\ frames[c].pc = "for_i"
    /\ IF RangeHas(frames[c].i, frames[c].n)
       THEN frames' = [frames EXCEPT ![c].ngrams = get_ngrams(frames[c].unigrams, frames[c].i),
                                     ![c].k = 1,
                                     ![c].pc = "for_ngram"]
       ELSE frames' = [frames EXCEPT ![c].pc = "concat"]
    /\ UNCHANGED <<itemsize, trainVars>>

\* for ngram in get_ngrams(i): hash_ngram(ngram) is evaluated and appended, or raises
HashNgram(c) ==
    LET f == frames[c]
        ngram == f.ngrams[f.k]
    IN  /\ f.pc = "for_ngram"
        /\ f.k <= Len(f.ngrams)
        /\ IF ~ArrayFits(ngram)
           THEN frames' = [frames EXCEPT ![c].pc = "raised", ![c].err = "OverflowError"]
           ELSE IF f.n_buckets = 0
           THEN frames' = [frames EXCEPT ![c].pc = "raised", ![c].err = "ZeroDivisionError"]
           ELSE frames' = [frames EXCEPT
                    ![c].acc = Append(@, ComprehensionItem(f, itemsize)),
                    ![c].hashed = Append(@, [ngram |-> ngram,
                                             bytes |-> tobytes(ngram, itemsize),
                                             id |-> ComprehensionItem(f, itemsize)]),
                    ![c].k = @ + 1]
        /\ UNCHANGED <<itemsize, trainVars>>

\* the inner loop is exhausted: back to the outer loop
NextI(c) ==
    /\ frames[c].pc = "for_ngram"
    /\ frames[c].k > Len(frames[c].ngrams)
    /\ frames' = [frames EXCEPT ![c].i = @ + 1, ![c].pc = "for_i"]
    /\ UNCHANGED <<itemsize, trainVars>>

\* return unigrams + [...]
Return(c) ==
    /\ frames[c].pc = "concat"
    /\ LET r == ListAdd(frames[c].unigrams, frames[c].acc)
       IN  frames' = [frames EXCEPT ![c].unigrams = r.self,
                                    ![c].result = r.ret,
                                    ![c].pc = "returned"]
    /\ UNCHANGED <<itemsize, trainVars>>

Next ==
    \E c \in DOMAIN frames :
        \/ Enter(c)
        \/ ForI(c)
        \/ HashNgram(c)
        \/ NextI(c)
        \/ Return(c)

Spec == Init /\ [][Next]_vars

SpecPar == InitPar /\ [][Next]_vars

(***************************************************************************)
(* train_test_and_save_model, run after run of the script.                 *)
(*   trace   the calls made to the session and the classifier in this run  *)
(*   last    how the previous run ended (history)                          *)
(***************************************************************************)
Ev(name, num) == [ev |-> name, n |-> num]

\* variant: range(N_EPOCH + 1)
EpochRangeHasInclusive(e) == e <= N_EPOCH

\* for epoch in range(N_EPOCH): the range still has the value e to deliver
EpochRangeHas(e) == e < N_EPOCH

InitTrain ==
    /\ frames = [c \in {1} |-> NewFrame(<<>>, 10, 100, 2)]
    /\ itemsize = 8
    /\ tpc = "start"
    /\ ckpt_exists \in BOOLEAN
    /\ epoch = 0
    /\ batch = 0
    /\ nbatches = 0
    /\ trace = <<>>
    /\ run = 1
    /\ last = "none"

\* line 136: the data set is loaded; its size fixes the mini-batches per epoch
LoadData ==
    /\ tpc = "start"
    /\ nbatches' \in 0..MaxBatches
    /\ tpc' = "build"
    /\ UNCHANGED <<augVars, ckpt_exists, epoch, batch, trace, run, last>>

\* lines 137-141: FastTextClassifier(...)
BuildClassifier ==
    /\ tpc = "build"
    /\ tpc' = "init"
    /\ UNCHANGED <<augVars, ckpt_exists, epoch, batch, nbatches, trace, run, last>>

\* line 144: sess.run(tf.global_variables_initializer())
InitVariables ==
    /\ tpc = "init"
    /\ trace' = Append(trace, Ev("init", 0))
    /\ tpc' = "check"
    /\ UNCHANGED <<augVars, ckpt_exists, epoch, batch, nbatches, run, last>>

\* line 146: if os.path.exists(MODEL_FILE_PATH)
CheckCheckpoint ==
    /\ tpc = "check"
    /\ trace' = Append(trace, Ev("exists", IF ckpt_exists THEN 1 ELSE 0))
    /\ IF ckpt_exists
       THEN tpc' = "load" /\ UNCHANGED epoch
       ELSE tpc' = "epoch_head" /\ epoch' = 0
    /\ UNCHANGED <<augVars, ckpt_exists, batch, nbatches, run, last>>

\* line 148: classifier.load succeeds
Load ==
    /\ tpc = "load"
    /\ trace' = Append(trace, Ev("load", 0))
    /\ tpc' = "test"
    /\ UNCHANGED <<augVars, ckpt_exists, epoch, batch, nbatches, run, last>>

\* line 148: classifier.load raises (a file that is no checkpoint of this model)
LoadRaises ==
    /\ tpc = "load"
    /\ trace' = Append(trace, Ev("load", 0))
    /\ tpc' = "failed"
    /\ UNCHANGED <<augVars, ckpt_exists, epoch, batch, nbatches, run, last>>

\* line 152: the epoch loop delivers the next epoch, or ends
EpochHead ==
    /\ tpc = "epoch_head"
    /\ IF EpochRangeHas(epoch)
       THEN /\ trace' = Append(trace, Ev("epoch", epoch + 1))
            /\ batch' = 0
            /\ tpc' = "batches"
       ELSE /\ tpc' = "test"
            /\ UNCHANGED <<trace, batch>>
    /\ UNCHANGED <<augVars, ckpt_exists, epoch, nbatches, run, last>>

\* lines 156-166: one mini-batch, sess.run([accuracy, train_op])
TrainStep ==
    /\ tpc = "batches"
    /\ batch < nbatches
    /\ batch' = batch + 1
    /\ trace' = Append(trace, Ev("step", batch + 1))
    /\ UNCHANGED <<augVars, tpc, ckpt_exists, epoch, nbatches, run, last>>

\* lines 156, 168: the mini-batches are exhausted, the epoch's summary is printed
EpochEnd ==
    /\ tpc = "batches"
    /\ batch = nbatches
    /\ epoch' = epoch + 1
    /\ tpc' = "epoch_head"
    /\ UNCHANGED <<augVars, ckpt_exists, batch, nbatches, trace, run, last>>

\* lines 171-177: sess.run(classifier.accuracy) on the test set
Test ==
    /\ tpc = "test"
    /\ trace' = Append(trace, Ev("test", 0))
    /\ tpc' = "save"
    /\ UNCHANGED <<augVars, ckpt_exists, epoch, batch, nbatches, run, last>>

\* line 180: classifier.save writes the checkpoint
Save ==
    /\ tpc = "save"
    /\ trace' = Append(trace, Ev("save", 0))
    /\ ckpt_exists' = TRUE
    /\ tpc' = "done"
    /\ UNCHANGED <<augVars, epoch, batch, nbatches, run, last>>

\* line 180: classifier.save raises; the file may or may not have been created
SaveRaises ==
    /\ tpc = "save"
    /\ trace' = Append(trace, Ev("save", 0))
    /\ ckpt_exists' \in {ckpt_exists, TRUE}
    /\ tpc' = "failed"
    /\ UNCHANGED <<augVars, epoch, batch, nbatches, run, last>>

\* line 182-183: the script is started again
Rerun ==
    /\ tpc \in {"done", "failed"}
    /\ run < MaxRuns
    /\ run' = run + 1
    /\ last' = tpc
    /\ tpc' = "start"
    /\ trace' = <<>>
    /\ epoch' = 0
    /\ batch' = 0
    /\ nbatches' = 0
    /\ UNCHANGED <<augVars, ckpt_exists>>

NextTrain ==
    \/ LoadData
    \/ BuildClassifier
    \/ InitVariables
    \/ CheckCheckpoint
    \/ Load
    \/ LoadRaises
    \/ EpochHead
    \/ TrainStep
    \/ EpochEnd
    \/ Test
    \/ Save
    \/ SaveRaises
    \/ Rerun

SpecTrain == InitTrain /\ [][NextTrain]_vars

(***************************************************************************)
(* Properties.                                                             *)
(***************************************************************************)
Calls == DOMAIN frames

Returned(c) == frames[c].pc = "returned"

Raised(c) == frames[c].pc = "raised"

HasNegative(x) == \E j \in 1..Len(x) : x[j] < 0

\* sum over m in 2..N of max(0, len - m + 1)
RECURSIVE NgramCount(_, _)
NgramCount(len, N) ==
    IF N < 2 THEN 0 ELSE NgramCount(len, N - 1) + Max(0, len - N + 1)

\* C1: the list a call returns for order n >= 1 has length
\* len(seq) + sum over m in 2..n of max(0, len(seq) - m + 1).
LengthLaw ==
    \A c \in Calls :
        (Returned(c) /\ frames[c].n >= 1) =>
            Len(frames[c].result) =
                Len(frames[c].x0) + NgramCount(Len(frames[c].x0), frames[c].n)

\* a call returned for an order above the length of its sequence, with 2-grams
LengthWitness ==
    \E c \in Calls :
        /\ Returned(c)
        /\ Len(frames[c].x0) = 2
        /\ frames[c].n = 3
        /\ Len(frames[c].result) = 3

\* C2: the first len(seq) elements of the returned list are seq itself.
PrefixLaw ==
    \A c \in Calls :
        Returned(c) =>
            /\ Len(frames[c].result) >= Len(frames[c].x0)
            /\ SubSeq(frames[c].result, 1, Len(frames[c].x0)) = frames[c].x0

\* a call returned its three tokens followed by hashed features
PrefixWitness ==
    \E c \in Calls :
        /\ Returned(c)
        /\ frames[c].x0 = <<257, 0, 1>>
        /\ Len(frames[c].result) > 3

\* C3: with a positive bucket count every hashed feature ID lies in [V, V+B);
\* if moreover every token lies in [0, V), every element returned lies in
\* [0, V+B) and no hashed feature ID equals a unigram ID.
RangeLaw ==
    \A c \in Calls :
        LET f == frames[c]
            V == f.unigram_vocab_size
            B == f.n_buckets
        IN  B > 0 =>
              /\ \A j \in 1..Len(f.acc) : V <= f.acc[j] /\ f.acc[j] < V + B
              /\ (Returned(c) /\ \A l \in 1..Len(f.x0) : 0 <= f.x0[l] /\ f.x0[l] < V) =>
                    /\ \A j \in 1..Len(f.result) : 0 <= f.result[j] /\ f.result[j] < V + B
                    /\ \A j \in (Len(f.x0) + 1)..Len(f.result), l \in 1..Len(f.x0) :
                          f.result[j] # f.x0[l]

\* a call on in-vocabulary tokens returned 2-grams and a 3-gram
RangeWitness ==
    \E c \in Calls :
        /\ Returned(c)
        /\ frames[c].unigram_vocab_size = 10
        /\ frames[c].n_buckets = 100
        /\ frames[c].x0 = <<1, 0, 1>>
        /\ Len(frames[c].acc) = 3

\* C4: after the unigrams come the groups n = 2, 3, ..., each in order of
\* window start; the k-th feature of group m is the hash of seq[k .. k+m-1].
OrderLaw ==
    \A c \in Calls :
        LET f == frames[c]
            len == Len(f.x0)
        IN  Returned(c) =>
              \A m \in 2..f.n : \A k \in 1..(len - m + 1) :
                  /\ len + NgramCount(len, m - 1) + k <= Len(f.result)
                  /\ f.result[len + NgramCount(len, m - 1) + k] =
                        hash_ngram(SubSeq(f.x0, k, k + m - 1),
                                   f.unigram_vocab_size, f.n_buckets, itemsize)

\* a call returned two distinct 2-grams followed by a 3-gram
OrderWitness ==
    \E c \in Calls :
        /\ Returned(c)
        /\ frames[c].x0 = <<1, 257, 0>>
        /\ frames[c].n = 3
        /\ Len(frames[c].result) = 6
        /\ frames[c].result[4] # frames[c].result[5]

InvalidArguments(f) ==
    \/ f.unigram_vocab_size <= 0
    \/ f.n_buckets <= 0
    \/ f.n < 1
    \/ HasNegative(f.x0)

\* C5 as stated: a call with vocab_size <= 0, n_buckets <= 0, n < 1 or a
\* negative token fails with InvalidArgument and returns no result.
InvalidArgumentLaw ==
    \A c \in Calls :
        InvalidArguments(frames[c]) =>
            /\ ~Returned(c)
            /\ Raised(c) => frames[c].err = "InvalidArgument"

\* some n-gram is hashed: n >= 2 and the sequence has at least two elements
HashesSomething(f) == f.n >= 2 /\ Len(f.x0) >= 2

\* the error the first failing window raises, "none" if no window fails
ExpectedError(f) ==
    IF ~HashesSomething(f) THEN "none"
    ELSE IF f.n_buckets = 0
         THEN (IF HasNegative(SubSeq(f.x0, 1, 2)) THEN "OverflowError"
               ELSE "ZeroDivisionError")
         ELSE (IF HasNegative(f.x0) THEN "OverflowError" ELSE "none")

\* C5 amended: the arguments are not validated.  A call raises only while
\* hashing a window: OverflowError for a window with a negative token,
\* ZeroDivisionError for n_buckets = 0; it never raises InvalidArgument, and
\* when no window fails it returns.
NoValidationLaw ==
    \A c \in Calls :
        LET f == frames[c]
        IN  /\ f.err \in {"none", "OverflowError", "ZeroDivisionError"}
            /\ Raised(c) => (f.err # "none" /\ f.err = ExpectedError(f))
            /\ Returned(c) => (f.err = "none" /\ ExpectedError(f) = "none")
            /\ (f.pc = "concat" \/ Returned(c)) => ExpectedError(f) = "none"

\* augment([-1], 10, 100, 2) returned [-1]
NoValidationWitness ==
    \E c \in Calls :
        /\ Returned(c)
        /\ frames[c].x0 = <<-1>>
        /\ frames[c].unigram_vocab_size = 10
        /\ frames[c].n_buckets = 100
        /\ frames[c].n = 2
        /\ frames[c].result = <<-1>>

\* C6: a call on the empty sequence returns the empty sequence, a call on a
\* one-element sequence with n = 2 returns that sequence; neither raises.
EmptyShortLaw ==
    \A c \in Calls :
        LET f == frames[c]
        IN  (f.x0 = <<>> \/ (Len(f.x0) = 1 /\ f.n = 2)) =>
              /\ ~Raised(c)
              /\ f.acc = <<>>
              /\ Returned(c) => f.result = f.x0

\* a call on a one-element sequence with n = 2 and valid sizes returned
EmptyShortWitness ==
    \E c \in Calls :
        /\ Returned(c)
        /\ frames[c].x0 = <<257>>
        /\ frames[c].n = 2
        /\ frames[c].unigram_vocab_size = 300
        /\ frames[c].n_buckets = 100
        /\ frames[c].result = <<257>>

RECURSIVE HashedGroups(_, _, _, _, _)
HashedGroups(x, V, B, n, w) ==
    IF n < 2 THEN <<>>
    ELSE HashedGroups(x, V, B, n - 1, w) \o
         [k \in 1..Max(0, Len(x) - n + 1) |-> hash_ngram(SubSeq(x, k, k + n - 1), V, B, w)]

\* C8: a call leaves the list it was given as it was, and interleaved calls
\* return what each would return alone.
NoSideEffectLaw ==
    \A c \in Calls :
        LET f == frames[c]
        IN  /\ f.unigrams = f.x0
            /\ Returned(c) =>
                  f.result = f.x0 \o HashedGroups(f.x0, f.unigram_vocab_size,
                                                  f.n_buckets, f.n, itemsize)

\* one call returned while the other is in the middle of its inner loop
NoSideEffectWitness ==
    /\ Calls = {1, 2}
    /\ Returned(1)
    /\ Len(frames[1].acc) = 3
    /\ frames[2].pc = "for_ngram"
    /\ Len(frames[2].acc) = 1
    /\ Len(frames[2].x0) = 3

\* C9: two hashed windows with the same bytes are the same window (same
\* length, same elements in the same order).
SerializationInjective ==
    \A c \in Calls, d \in Calls :
        \A j \in 1..Len(frames[c].hashed), l \in 1..Len(frames[d].hashed) :
            frames[c].hashed[j].bytes = frames[d].hashed[l].bytes =>
                frames[c].hashed[j].ngram = frames[d].hashed[l].ngram

\* a call hashed 2-grams and a 3-gram over one-byte and two-byte tokens
SerializationWitness ==
    \E c \in Calls :
        /\ frames[c].x0 = <<257, 1, 257>>
        /\ Len(frames[c].hashed) = 3
        /\ Len(frames[c].hashed[3].ngram) = 3
        /\ Len(frames[c].hashed[3].bytes) = 3 * itemsize

\* the events of a run that loaded the checkpoint
LoadTrace == <<Ev("init", 0), Ev("exists", 1), Ev("load", 0), Ev("test", 0), Ev("save", 0)>>

\* the events of epochs e..N_EPOCH with b mini-batches each
RECURSIVE EpochsTrace(_, _)
EpochsTrace(e, b) ==
    IF e > N_EPOCH THEN <<>>
    ELSE <<Ev("epoch", e)>> \o [j \in 1..b |-> Ev("step", j)] \o EpochsTrace(e + 1, b)

\* the events of a run that trained from scratch
TrainTrace(b) ==
    <<Ev("init", 0), Ev("exists", 0)>> \o EpochsTrace(1, b) \o <<Ev("test", 0), Ev("save", 0)>>

HasEvent(name) == \E j \in 1..Len(trace) : trace[j].ev = name

\* C10: a run that reaches the end either loaded and did not train, or did
\* not load and ran epochs 1..N_EPOCH in order; then it evaluated once and
\* saved once, in that order.  It leaves the checkpoint written, and the run
\* after a completed run loads.
TrainLaw ==
    /\ ~(HasEvent("load") /\ (HasEvent("epoch") \/ HasEvent("step")))
    /\ tpc = "done" =>
          /\ trace = LoadTrace \/ trace = TrainTrace(nbatches)
          /\ ckpt_exists
    /\ (last = "done" /\ HasEvent("exists")) =>
          (trace[2] = Ev("exists", 1) /\ ~HasEvent("epoch") /\ ~HasEvent("step"))

\* the run after a completed run loaded the checkpoint and reached the end
TrainWitness ==
    /\ tpc = "done"
    /\ run = 2
    /\ last = "done"
    /\ trace = LoadTrace

====
